---- MODULE Spec2Model ----
(***************************************************************************)
(* Model of ml-service/convert_to_onnx.py: the one-shot conversion of a    *)
(* persisted classifier into a graph file plus a JSON config.              *)
(*                                                                         *)
(* Text is modelled as a sequence of one-character strings, so that        *)
(* startswith, replace, split, lower and the substring test work on        *)
(* characters as the Python string methods do.  Importances are counted in *)
(* hundredths (0.15 is 15, 0.01 is 1).                                     *)
(***************************************************************************)
EXTENDS Integers, Sequences, FiniteSets, TLC

(***************************************************************************)
(* Bounds of the model.                                                    *)
(***************************************************************************)
\* longest feature_columns list of an artifact in the pipeline runs
MaxCols == 2
\* longest native importance vector of an estimator
MaxImp == 3
\* most name fragments in all the column names handed to the string functions
MaxFragments == 3
\* longest feature_columns list handed to the string functions
MaxFnCols == 2

(***************************************************************************)
(* Python string methods, on sequences of characters.                      *)
(***************************************************************************)
UpperChars == <<"A", "B", "C", "D", "E", "F", "G", "H", "I", "J", "K", "L", "M", "N", "O", "P", "Q", "R", "S", "T", "U", "V", "W", "X", "Y", "Z">>
LowerChars == <<"a", "b", "c", "d", "e", "f", "g", "h", "i", "j", "k", "l", "m", "n", "o", "p", "q", "r", "s", "t", "u", "v", "w", "x", "y", "z">>

\* one character of str.lower()
lower_char(c) ==
    IF \E i \in 1..Len(UpperChars) : UpperChars[i] = c
    THEN LowerChars[CHOOSE i \in 1..Len(UpperChars) : UpperChars[i] = c]
    ELSE c

\* col.lower()
lower(s) == [i \in 1..Len(s) |-> lower_char(s[i])]

\* s.startswith(p)
startswith(s, p) == Len(s) >= Len(p) /\ SubSeq(s, 1, Len(p)) = p

\* w in s  (substring test)
contains(s, w) ==
    \E i \in 1..(Len(s) - Len(w) + 1) : SubSeq(s, i, i + Len(w) - 1) = w

\* any(w in s for w in words)
any_in(words, s) == \E k \in 1..Len(words) : contains(s, words[k])

\* s.replace(old, new): every non-overlapping occurrence, left to right
RECURSIVE replace(_, _, _)
replace(s, old, new) ==
    IF Len(s) < Len(old) THEN s
    ELSE IF SubSeq(s, 1, Len(old)) = old
         THEN new \o replace(SubSeq(s, Len(old) + 1, Len(s)), old, new)
         ELSE <<Head(s)>> \o replace(Tail(s), old, new)

\* s.rsplit(sep, 1): the split is made at the last separator
split_first_last(s, sep) ==
    IF \E i \in 1..Len(s) : s[i] = sep
    THEN LET i == CHOOSE j \in 1..Len(s) :
                     s[j] = sep /\ \A k \in (j + 1)..Len(s) : s[k] # sep
         IN  <<SubSeq(s, 1, i - 1), SubSeq(s, i + 1, Len(s))>>
    ELSE <<s>>

\* s.split(sep, 1) with a one-character separator
split_first(s, sep) ==
    IF \E i \in 1..Len(s) : s[i] = sep
    THEN LET i == CHOOSE j \in 1..Len(s) :
                     s[j] = sep /\ \A k \in 1..(j - 1) : s[k] # sep
         IN  <<SubSeq(s, 1, i - 1), SubSeq(s, i + 1, Len(s))>>
    ELSE <<s>>

(***************************************************************************)
(* Python dicts, as functions on the set of their keys.                    *)
(***************************************************************************)
EmptyDict == [k \in {} |-> 0]

\* d[k] = v
DictSet(d, k, v) == [j \in DOMAIN d \cup {k} |-> IF j = k THEN v ELSE d[j]]

\* d.get(k, default)
DictGet(d, k, default) == IF k \in DOMAIN d THEN d[k] ELSE default

(***************************************************************************)
(* Fixed texts of the program.                                             *)
(***************************************************************************)
HAS_PREFIX == <<"h", "a", "s", "_">>
TAGS_DOT == <<"t", "a", "g", "s", ".">>
UNDERSCORE == "_"

accessibility_positive ==
    << <<"a", "u", "t", "o", "m", "a", "t", "i", "c", "_", "d", "o", "o", "r">>,
       <<"t", "o", "i", "l", "e", "t", "s", "_", "w", "h", "e", "e", "l", "c", "h", "a", "i", "r">>,
       <<"r", "a", "m", "p">>,
       <<"e", "l", "e", "v", "a", "t", "o", "r">>,
       <<"t", "a", "c", "t", "i", "l", "e", "_", "p", "a", "v", "i", "n", "g">>,
       <<"h", "e", "a", "r", "i", "n", "g", "_", "l", "o", "o", "p">>,
       <<"w", "h", "e", "e", "l", "c", "h", "a", "i", "r">>,
       <<"a", "c", "c", "e", "s", "s", "i", "b", "l", "e">>,
       <<"g", "r", "o", "u", "n", "d">>,
       <<"e", "n", "t", "r", "a", "n", "c", "e">>,
       <<"d", "o", "o", "r">> >>

accessibility_negative ==
    << <<"s", "t", "a", "i", "r", "s">>,
       <<"s", "t", "e", "p", "_", "c", "o", "u", "n", "t">>,
       <<"b", "a", "r", "r", "i", "e", "r">>,
       <<"k", "e", "r", "b">>,
       <<"u", "p", "p", "e", "r">>,
       <<"b", "a", "s", "e", "m", "e", "n", "t">> >>

place_type ==
    << <<"a", "m", "e", "n", "i", "t", "y">>,
       <<"s", "h", "o", "p">>,
       <<"t", "o", "u", "r", "i", "s", "m">>,
       <<"h", "e", "a", "l", "t", "h", "c", "a", "r", "e">>,
       <<"b", "u", "i", "l", "d", "i", "n", "g">>,
       <<"l", "e", "i", "s", "u", "r", "e">> >>

(***************************************************************************)
(* generate_encoding_info                                                  *)
(***************************************************************************)
\* one pass of the loop over feature_columns
encode_column(encoding, col) ==
    IF startswith(col, HAS_PREFIX)
    THEN [encoding EXCEPT !.has_features =
             Append(@, [column |-> col,
                        tag |-> TAGS_DOT \o replace(col, HAS_PREFIX, <<>>)])]
    ELSE LET parts == split_first(col, UNDERSCORE) IN
         IF Len(parts) = 2
         THEN [encoding EXCEPT !.categorical_features =
                  DictSet(@, parts[1],
                          DictSet(DictGet(@, parts[1], EmptyDict), parts[2], col))]
         ELSE encoding

RECURSIVE encoding_loop(_, _, _)
encoding_loop(cols, i, encoding) ==
    IF i > Len(cols) THEN encoding
    ELSE encoding_loop(cols, i + 1, encode_column(encoding, cols[i]))

generate_encoding_info(useful, cols) ==
    encoding_loop(cols, 1, [has_features |-> <<>>,
                            categorical_features |-> EmptyDict])

(***************************************************************************)
(* The heuristic importances of main, for an estimator without             *)
(* feature_importances_.                                                   *)
(***************************************************************************)
\* the same table matched against col instead of col.lower()
heuristic_importance_cased(col) ==
    IF any_in(accessibility_positive, col) THEN 15
    ELSE IF any_in(accessibility_negative, col) THEN 12
    ELSE IF any_in(place_type, col) THEN 8
    ELSE IF startswith(col, HAS_PREFIX) THEN 5
    ELSE 1

heuristic_importance(col) ==
    LET col_lower == lower(col) IN
    IF any_in(accessibility_positive, col_lower) THEN 15
    ELSE IF any_in(accessibility_negative, col_lower) THEN 12
    ELSE IF any_in(place_type, col_lower) THEN 8
    ELSE IF startswith(col_lower, HAS_PREFIX) THEN 5
    ELSE 1

RECURSIVE heuristic_loop(_, _, _)
heuristic_loop(cols, idx, fi) ==
    IF idx > Len(cols) THEN fi
    ELSE LET importance == heuristic_importance(cols[idx]) IN
         heuristic_loop(cols, idx + 1,
                        IF importance > 1 THEN DictSet(fi, cols[idx], importance)
                        ELSE fi)

heuristic_importances(cols) == heuristic_loop(cols, 1, EmptyDict)

(***************************************************************************)
(* Native importances of main: the loop over model.feature_importances_.   *)
(* The result is a record: raised tells whether feature_columns[idx]       *)
(* raised IndexError, fi is the dict built so far.                         *)
(***************************************************************************)
RECURSIVE native_loop_nonneg(_, _, _, _)
native_loop_nonneg(importances, cols, idx, fi) ==
    IF idx > Len(importances) THEN [raised |-> FALSE, fi |-> fi]
    ELSE IF importances[idx] >= 0
         THEN IF idx > Len(cols) THEN [raised |-> TRUE, fi |-> fi]
              ELSE native_loop_nonneg(importances, cols, idx + 1,
                                      DictSet(fi, cols[idx], importances[idx]))
         ELSE native_loop_nonneg(importances, cols, idx + 1, fi)

RECURSIVE native_loop(_, _, _, _)
native_loop(importances, cols, idx, fi) ==
    IF idx > Len(importances) THEN [raised |-> FALSE, fi |-> fi]
    ELSE IF importances[idx] > 0
         THEN IF idx > Len(cols) THEN [raised |-> TRUE, fi |-> fi]
              ELSE native_loop(importances, cols, idx + 1,
                               DictSet(fi, cols[idx], importances[idx]))
         ELSE native_loop(importances, cols, idx + 1, fi)

(***************************************************************************)
(* Class mapping and labels.                                               *)
(***************************************************************************)
\* a stored dict key: the integer n, or the text of n
IntKey(n) == [str |-> FALSE, n |-> n]
StrKey(n) == [str |-> TRUE, n |-> n]

\* int(k)
int(k) == k.n

\* {0: 'not_accessible', 1: 'accessible'}
DEFAULT_CLASS_MAPPING ==
    << <<IntKey(0), "not_accessible">>, <<IntKey(1), "accessible">> >>

\* {int(k): v for k, v in class_mapping.items()}
RECURSIVE normalize_loop(_, _, _)
normalize_loop(items, i, d) ==
    IF i > Len(items) THEN d
    ELSE normalize_loop(items, i + 1, DictSet(d, int(items[i][1]), items[i][2]))

normalize_class_mapping(items) == normalize_loop(items, 1, EmptyDict)

\* f'class_{i}'
class_name(i) == <<"class_0", "class_1", "class_2">>[i + 1]

\* model_data.get('n_classes', 2)
get_n_classes(md) == IF "n_classes" \in md.keys THEN md.n_classes ELSE 2

\* model_data.get('class_mapping', {...}) with its keys made integers
get_class_mapping(md) ==
    normalize_class_mapping(IF "class_mapping" \in md.keys THEN md.class_mapping
                            ELSE DEFAULT_CLASS_MAPPING)

make_labels(n_classes, class_mapping) ==
    IF n_classes = 3
    THEN [i \in 1..3 |-> DictGet(class_mapping, i - 1, class_name(i - 1))]
    ELSE <<"not_accessible", "accessible">>

(***************************************************************************)
(* The config document of main.                                            *)
(***************************************************************************)
RECURSIVE dedup(_)
dedup(s) ==
    IF s = <<>> THEN <<>>
    ELSE LET rest == dedup(SubSeq(s, 1, Len(s) - 1)) IN
         IF \E i \in 1..Len(rest) : rest[i] = s[Len(s)] THEN rest
         ELSE Append(rest, s[Len(s)])

\* the config with its feature_columns passed through list(dict.fromkeys())
make_config_dedup(md, cols, fi) ==
    [model_name |-> md.model_name,
     n_classes |-> get_n_classes(md),
     feature_columns |-> dedup(cols),
     useful_features |-> md.useful_features,
     metrics |-> md.metrics,
     input_name |-> "float_input",
     output_names |-> <<"output_label", "output_probability">>,
     labels |-> make_labels(get_n_classes(md), get_class_mapping(md)),
     class_mapping |-> get_class_mapping(md),
     encoding_info |-> generate_encoding_info(md.useful_features, cols),
     feature_importances |-> fi]

make_config(md, cols, fi) ==
    [model_name |-> md.model_name,
     n_classes |-> get_n_classes(md),
     feature_columns |-> cols,
     useful_features |-> md.useful_features,
     metrics |-> md.metrics,
     input_name |-> "float_input",
     output_names |-> <<"output_label", "output_probability">>,
     labels |-> make_labels(get_n_classes(md), get_class_mapping(md)),
     class_mapping |-> get_class_mapping(md),
     encoding_info |-> generate_encoding_info(md.useful_features, cols),
     feature_importances |-> fi]

(***************************************************************************)
(* The inputs: what can be on disk when the program starts.                *)
(***************************************************************************)
has_ramp == <<"h", "a", "s", "_", "r", "a", "m", "p">>
stairs_present == <<"s", "t", "a", "i", "r", "s", "_", "p", "r", "e", "s", "e", "n", "t">>
random_flag_7 == <<"r", "a", "n", "d", "o", "m", "_", "f", "l", "a", "g", "_", "7">>
amenity_cafe == <<"a", "m", "e", "n", "i", "t", "y", "_", "c", "a", "f", "e">>

\* sequences over S of length at most n
SeqsUpTo(S, n) == UNION {[1..k -> S] : k \in 0..n}

\* column names of the artifacts the pipeline runs load
PipeNames == {has_ramp, stairs_present, <<"x">>}

ImportanceValues == {0, 1, 20}

\* the estimator: whether the converter knows its type, and its
\* feature_importances_ when it has the attribute
Models ==
    {m \in [convertible : BOOLEAN,
            has_importances : BOOLEAN,
            feature_importances_ : SeqsUpTo(ImportanceValues, MaxImp)] :
        ~m.has_importances => m.feature_importances_ = <<>>}

ClassMappings ==
    { << <<IntKey(0), "no">>, <<IntKey(1), "yes">> >>,
      << <<IntKey(0), "not_accessible">>, <<IntKey(1), "limited">>,
         <<IntKey(2), "accessible">> >>,
      << <<StrKey(0), "not_accessible">>, <<StrKey(1), "limited">>,
         <<StrKey(2), "accessible">> >>,
      << <<IntKey(0), "not_accessible">>, <<IntKey(1), "limited">> >> }

\* the dict a .joblib file holds; keys lists the optional keys it has
Artifacts ==
    {a \in [model : Models,
            model_name : {"classifier"},
            feature_columns : SeqsUpTo(PipeNames, MaxCols),
            useful_features : {<<"wheelchair">>},
            metrics : [serializable : BOOLEAN],
            keys : SUBSET {"n_classes", "class_mapping"},
            n_classes : {2, 3},
            class_mapping : ClassMappings \cup {DEFAULT_CLASS_MAPPING}] :
        /\ "n_classes" \notin a.keys => a.n_classes = 2
        /\ "class_mapping" \notin a.keys => a.class_mapping = DEFAULT_CLASS_MAPPING
        /\ "class_mapping" \in a.keys => a.class_mapping \in ClassMappings}

\* name fragments; a column name is some of them glued together
Fragments ==
    {HAS_PREFIX, <<"H", "a", "s", "_">>, <<"r", "a", "m", "p">>,
     <<"s", "t", "a", "i", "r", "s", "_">>, <<"s", "h", "o", "p">>,
     stairs_present, random_flag_7, amenity_cafe}

\* the names glued from exactly n fragments
RECURSIVE Glued(_)
Glued(n) ==
    IF n = 0 THEN {<<>>}
    ELSE {s \o f : s \in Glued(n - 1), f \in Fragments}

\* the lists of at most c column names made of at most f fragments in all
RECURSIVE FnLists(_, _)
FnLists(c, f) ==
    IF c = 0 THEN {<<>>}
    ELSE {<<>>} \cup
         UNION {{<<name>> \o rest : name \in Glued(k),
                                    rest \in FnLists(c - 1, f - k)} :
                k \in 0..f}

(***************************************************************************)
(* State.                                                                  *)
(***************************************************************************)
VARIABLES
    pc,                   \* where the run is
    exists,               \* os.path.exists of the three candidate paths
    MODEL_PATH,           \* index of the candidate path chosen, 0 before
    model_data,           \* the loaded artifact
    onnx_model,           \* the converted graph
    feature_importances,  \* the importance dict of main
    config,               \* the config dict of main
    onnx_file,            \* the file at ONNX_OUTPUT_PATH
    config_file,          \* the file at CONFIG_OUTPUT_PATH
    error,                \* the exception that ended the run, "none" if none
    smoke,                \* outcome of the test inference
    fn_pc,                \* position of the calls of the string functions
    fn_cols,              \* their feature_columns argument
    fn_encoding,          \* result of generate_encoding_info
    fn_importances        \* result of the heuristic loop

pipe_vars == <<pc, exists, MODEL_PATH, model_data, onnx_model,
               feature_importances, config, onnx_file, config_file, error,
               smoke>>
fn_vars == <<fn_pc, fn_cols, fn_encoding, fn_importances>>
vars == <<pipe_vars, fn_vars>>

NoData == [none |-> TRUE]
PriorFile == [status |-> "prior", data |-> NoData]
NoEncoding == [has_features |-> <<>>, categorical_features |-> EmptyDict]

PipeIdle ==
    /\ pc = "off"
    /\ exists = [i \in 1..3 |-> FALSE]
    /\ MODEL_PATH = 0
    /\ model_data = NoData
    /\ onnx_model = NoData
    /\ feature_importances = EmptyDict
    /\ config = NoData
    /\ onnx_file = PriorFile
    /\ config_file = PriorFile
    /\ error = "none"
    /\ smoke = "none"

FnIdle ==
    /\ fn_pc = "off"
    /\ fn_cols = <<>>
    /\ fn_encoding = NoEncoding
    /\ fn_importances = EmptyDict

\* the process starts: nothing imported yet, the output files as they were
Init ==
    /\ pc = "import"
    /\ exists \in [1..3 -> BOOLEAN]
    /\ MODEL_PATH = 0
    /\ model_data = NoData
    /\ onnx_model = NoData
    /\ feature_importances = EmptyDict
    /\ config = NoData
    /\ onnx_file = PriorFile
    /\ config_file = PriorFile
    /\ error = "none"
    /\ smoke = "none"
    /\ FnIdle

(***************************************************************************)
(* Module level: the choice of MODEL_PATH.                                 *)
(* 1 geographic, 2 worldwide, 3 3class_best_overall.                       *)
(***************************************************************************)
\* the second test made on the worldwide path instead of on MODEL_PATH
resolve_model_path_literal(ex) ==
    LET p1 == IF ~ex[1] THEN 2 ELSE 1
    IN  IF ~ex[2] THEN 3 ELSE p1

resolve_model_path(ex) ==
    LET p1 == IF ~ex[1] THEN 2 ELSE 1
    IN  IF ~ex[p1] THEN 3 ELSE p1

ResolvePath ==
    /\ pc = "import"
    /\ MODEL_PATH' = resolve_model_path(exists)
    /\ pc' = "load"
    /\ UNCHANGED <<exists, model_data, onnx_model, feature_importances, config,
                   onnx_file, config_file, error, smoke, fn_vars>>

(***************************************************************************)
(* main                                                                    *)
(***************************************************************************)
Fail(e) == pc' = "failed" /\ error' = e

\* joblib.load(MODEL_PATH) and the reads of the dict
Load ==
    /\ pc = "load"
    /\ \/ /\ ~exists[MODEL_PATH]
          /\ Fail("not_found")
          /\ UNCHANGED model_data
       \/ /\ exists[MODEL_PATH]
          /\ Fail("corrupt")
          /\ UNCHANGED model_data
       \/ /\ exists[MODEL_PATH]
          /\ model_data' \in Artifacts
          /\ pc' = "convert"
          /\ UNCHANGED error
    /\ UNCHANGED <<exists, MODEL_PATH, onnx_model, feature_importances, config,
                   onnx_file, config_file, smoke, fn_vars>>

\* what convert_sklearn is asked for
convert_sklearn(md) ==
    [input_name |-> "float_input",
     n_features |-> Len(md.feature_columns),
     target_opset |-> 12,
     zipmap |-> FALSE]

\* the output file opened for writing before the conversion is made
Convert_open_first ==
    /\ pc = "convert"
    /\ \/ /\ ~model_data.model.convertible
          /\ Fail("convert")
          /\ onnx_file' = [status |-> "truncated", data |-> NoData]
          /\ UNCHANGED onnx_model
       \/ /\ model_data.model.convertible
          /\ onnx_model' = convert_sklearn(model_data)
          /\ pc' = "save_onnx"
          /\ UNCHANGED <<error, onnx_file>>
    /\ UNCHANGED <<exists, MODEL_PATH, model_data, feature_importances, config,
                   config_file, smoke, fn_vars>>

Convert ==
    /\ pc = "convert"
    /\ \/ /\ ~model_data.model.convertible
          /\ Fail("convert")
          /\ UNCHANGED onnx_model
       \/ /\ model_data.model.convertible
          /\ onnx_model' = convert_sklearn(model_data)
          /\ pc' = "save_onnx"
          /\ UNCHANGED error
    /\ UNCHANGED <<exists, MODEL_PATH, model_data, feature_importances, config,
                   onnx_file, config_file, smoke, fn_vars>>

\* makedirs and the write of the graph file
SaveOnnx ==
    /\ pc = "save_onnx"
    /\ onnx_file' = [status |-> "written", data |-> onnx_model]
    /\ pc' = "importances"
    /\ UNCHANGED <<exists, MODEL_PATH, model_data, onnx_model,
                   feature_importances, config, config_file, error, smoke,
                   fn_vars>>

\* native importances, or the heuristic when the attribute is missing
ExtractImportances ==
    /\ pc = "importances"
    /\ IF model_data.model.has_importances
       THEN LET r == native_loop(model_data.model.feature_importances_,
                                 model_data.feature_columns, 1, EmptyDict)
            IN  /\ feature_importances' = r.fi
                /\ IF r.raised
                   THEN Fail("index_error")
                   ELSE pc' = "config" /\ UNCHANGED error
       ELSE /\ feature_importances' =
                   heuristic_importances(model_data.feature_columns)
            /\ pc' = "config"
            /\ UNCHANGED error
    /\ UNCHANGED <<exists, MODEL_PATH, model_data, onnx_model, config,
                   onnx_file, config_file, smoke, fn_vars>>

\* labels and the config dict
BuildConfig ==
    /\ pc = "config"
    /\ config' = make_config(model_data, model_data.feature_columns,
                             feature_importances)
    /\ pc' = "save_config"
    /\ UNCHANGED <<exists, MODEL_PATH, model_data, onnx_model,
                   feature_importances, onnx_file, config_file, error, smoke,
                   fn_vars>>

\* open(CONFIG_OUTPUT_PATH, 'w') and json.dump: the file is truncated on
\* open, and json.dump raises TypeError on a value it cannot serialize
SaveConfig ==
    /\ pc = "save_config"
    /\ IF config.metrics.serializable
       THEN /\ config_file' = [status |-> "written", data |-> config]
            /\ pc' = "smoke"
            /\ UNCHANGED error
       ELSE /\ config_file' = [status |-> "truncated", data |-> NoData]
            /\ Fail("type_error")
    /\ UNCHANGED <<exists, MODEL_PATH, model_data, onnx_model,
                   feature_importances, config, onnx_file, smoke, fn_vars>>

\* the test inference with a runtime error left uncaught
SmokeTest_uncaught ==
    /\ pc = "smoke"
    /\ \/ smoke' = "ok" /\ pc' = "done" /\ UNCHANGED error
       \/ smoke' = "skipped" /\ pc' = "done" /\ UNCHANGED error
       \/ smoke' = "error" /\ Fail("runtime_error")
    /\ UNCHANGED <<exists, MODEL_PATH, model_data, onnx_model,
                   feature_importances, config, onnx_file, config_file,
                   fn_vars>>

\* the test inference: it succeeds, or onnxruntime is missing (ImportError),
\* or the session or the run raises; both except clauses only print
SmokeTest ==
    /\ pc = "smoke"
    /\ \/ smoke' = "ok"
       \/ smoke' = "skipped"
       \/ smoke' = "error"
    /\ pc' = "done"
    /\ UNCHANGED <<exists, MODEL_PATH, model_data, onnx_model,
                   feature_importances, config, onnx_file, config_file, error,
                   fn_vars>>

Next ==
    \/ ResolvePath
    \/ Load
    \/ Convert
    \/ SaveOnnx
    \/ ExtractImportances
    \/ BuildConfig
    \/ SaveConfig
    \/ SmokeTest

Spec == Init /\ [][Next]_vars

(***************************************************************************)
(* The string functions on their own: generate_encoding_info and the       *)
(* heuristic loop applied to a list of column names.                       *)
(***************************************************************************)
InitFn ==
    /\ PipeIdle
    /\ fn_pc = "start"
    /\ fn_cols \in FnLists(MaxFnCols, MaxFragments)
    /\ fn_encoding = NoEncoding
    /\ fn_importances = EmptyDict

FnEncode ==
    /\ fn_pc = "start"
    /\ fn_encoding' = generate_encoding_info(<<>>, fn_cols)
    /\ fn_pc' = "encoded"
    /\ UNCHANGED <<fn_cols, fn_importances, pipe_vars>>

FnHeuristic ==
    /\ fn_pc = "encoded"
    /\ fn_importances' = heuristic_importances(fn_cols)
    /\ fn_pc' = "scored"
    /\ UNCHANGED <<fn_cols, fn_encoding, pipe_vars>>

NextFn ==
    \/ FnEncode
    \/ FnHeuristic

SpecFn == InitFn /\ [][NextFn]_vars

(***************************************************************************)
(* Properties.                                                             *)
(***************************************************************************)
FirstExisting ==
    IF \E i \in 1..3 : exists[i]
    THEN CHOOSE i \in 1..3 : exists[i] /\ \A j \in 1..(i - 1) : ~exists[j]
    ELSE 3

LoadAttempted == pc \notin {"off", "import", "load"}

\* C1: a run that ends in a fatal load or convert error (artifact not found,
\* artifact corrupt, estimator rejected by the converter) has written neither
\* the graph file nor the config file.
C1_NoOutputOnFatalError ==
    error \in {"not_found", "corrupt", "convert"} =>
        onnx_file = PriorFile /\ config_file = PriorFile

C1_Witness ==
    /\ pc = "failed"
    /\ error = "convert"
    /\ model_data.feature_columns # <<>>

\* C2: the path that is loaded is the first of geographic, worldwide,
\* 3class_best_overall that exists; when none exists the load is attempted on
\* the third and fails with a not-found error, and only then.
C2_FirstExistingPathLoaded ==
    /\ pc \notin {"off", "import"} => MODEL_PATH = FirstExisting
    /\ LoadAttempted =>
          (error = "not_found" <=> \A i \in 1..3 : ~exists[i])
    /\ error = "not_found" => MODEL_PATH = 3

C2_Witness ==
    /\ LoadAttempted
    /\ ~exists[1] /\ exists[2] /\ exists[3]
    /\ MODEL_PATH = 2
    /\ error = "none"

\* C3: the smoke test starts only when both output files are written, and
\* whatever its outcome the run goes on to its normal end with no error and
\* with both files as they were.
C3_SmokeTestHarmless ==
    [][pc = "smoke" =>
          /\ onnx_file.status = "written"
          /\ config_file.status = "written"
          /\ pc' = "done"
          /\ error' = "none"
          /\ onnx_file' = onnx_file
          /\ config_file' = config_file]_vars

C3_Witness ==
    /\ pc = "done"
    /\ smoke = "error"
    /\ onnx_file.status = "written"
    /\ config_file.status = "written"

ConfigBuilt == pc \in {"save_config", "smoke", "done"}

\* C4: for an artifact with n_classes 2 or 3 whose class mapping has the keys
\* 0..n_classes-1, the labels have n_classes entries and labels[i] is
\* class_mapping[i] for every i (the default labels only come from the default
\* mapping).
C4_LabelsFollowClassMapping ==
    (ConfigBuilt /\ DOMAIN config.class_mapping = 0..(config.n_classes - 1)) =>
        /\ Len(config.labels) = config.n_classes
        /\ \A i \in 0..(config.n_classes - 1) :
              config.labels[i + 1] = config.class_mapping[i]

Encoded == fn_pc \in {"encoded", "scored"}

HasColumns == {i \in 1..Len(fn_cols) : startswith(fn_cols[i], HAS_PREFIX)}

\* C5: every column that begins with 'has_' has a has_features entry with the
\* column name unchanged and the tag 'tags.' followed by the name without its
\* leading 'has_' only, and has_features has one entry per such column.
C5_LeadingPrefixStripped ==
    Encoded =>
        /\ Len(fn_encoding.has_features) = Cardinality(HasColumns)
        /\ \A i \in HasColumns :
              \E j \in 1..Len(fn_encoding.has_features) :
                 /\ fn_encoding.has_features[j].column = fn_cols[i]
                 /\ fn_encoding.has_features[j].tag =
                       TAGS_DOT \o SubSeq(fn_cols[i], Len(HAS_PREFIX) + 1,
                                          Len(fn_cols[i]))

Underscores(s) == {k \in 1..Len(s) : s[k] = UNDERSCORE}

\* the columns recorded under categorical_features
CategoricalColumns ==
    LET cat == fn_encoding.categorical_features
    IN  {cat[t][v] : <<t, v>> \in
            UNION {{<<t, v>> : v \in DOMAIN cat[t]} : t \in DOMAIN cat}}

PresenceColumns ==
    {fn_encoding.has_features[j].column :
        j \in 1..Len(fn_encoding.has_features)}

\* C6: a column that does not begin with 'has_' and contains an underscore is
\* found at categorical_features[text before the first underscore][text after
\* it]; one without an underscore is recorded nowhere; no column is recorded
\* both as a presence flag and as a categorical value.
C6_CategoricalSplitOnFirstUnderscore ==
    Encoded =>
        LET cat == fn_encoding.categorical_features IN
        /\ \A i \in 1..Len(fn_cols) :
              LET col == fn_cols[i] IN
              ~startswith(col, HAS_PREFIX) =>
                 IF Underscores(col) # {}
                 THEN LET u == CHOOSE k \in Underscores(col) :
                                  \A m \in Underscores(col) : k <= m
                          tag_name == SubSeq(col, 1, u - 1)
                          value == SubSeq(col, u + 1, Len(col))
                      IN  /\ tag_name \in DOMAIN cat
                          /\ value \in DOMAIN cat[tag_name]
                          /\ cat[tag_name][value] = col
                 ELSE col \notin CategoricalColumns \cup PresenceColumns
        /\ CategoricalColumns \cap PresenceColumns = {}

C6_Witness ==
    /\ fn_pc = "encoded"
    /\ \E i \in 1..Len(fn_cols) :
          /\ ~startswith(fn_cols[i], HAS_PREFIX)
          /\ Cardinality(Underscores(fn_cols[i])) >= 2
          /\ fn_cols[i] \in CategoricalColumns
    /\ \E i \in 1..Len(fn_cols) :
          /\ fn_cols[i] # <<>>
          /\ Underscores(fn_cols[i]) = {}

\* the importance the priority table of the claim gives a column
TableImportance(col) ==
    LET name == lower(col) IN
    CASE any_in(accessibility_positive, name) -> 15
      [] ~any_in(accessibility_positive, name)
           /\ any_in(accessibility_negative, name) -> 12
      [] ~any_in(accessibility_positive, name)
           /\ ~any_in(accessibility_negative, name)
           /\ any_in(place_type, name) -> 8
      [] ~any_in(accessibility_positive, name)
           /\ ~any_in(accessibility_negative, name)
           /\ ~any_in(place_type, name)
           /\ Len(name) >= 4
           /\ \A k \in 1..4 : name[k] = HAS_PREFIX[k] -> 5
      [] OTHER -> 1

FnColumnSet == {fn_cols[i] : i \in 1..Len(fn_cols)}

\* C7: without native importances the map holds exactly the columns the
\* priority table (positive 0.15, negative 0.12, place type 0.08, 'has_' 0.05,
\* matched without regard to case) puts above 0.01, each with the table's
\* value: has_ramp 0.15, stairs_present 0.12, random_flag_7 absent.
C7_HeuristicPriorityTable ==
    fn_pc = "scored" =>
        /\ DOMAIN fn_importances =
              {c \in FnColumnSet : TableImportance(c) > 1}
        /\ \A c \in DOMAIN fn_importances :
              /\ fn_importances[c] = TableImportance(c)
              /\ fn_importances[c] \in {15, 12, 8, 5}
        /\ has_ramp \in FnColumnSet => fn_importances[has_ramp] = 15
        /\ stairs_present \in FnColumnSet => fn_importances[stairs_present] = 12
        /\ random_flag_7 \notin DOMAIN fn_importances

C7_Witness ==
    /\ fn_pc = "scored"
    /\ \E c \in FnColumnSet :
          /\ any_in(accessibility_positive, lower(c))
          /\ any_in(accessibility_negative, lower(c))
          /\ fn_importances[c] = 15
    /\ \E c \in FnColumnSet :
          /\ c # lower(c)
          /\ c \in DOMAIN fn_importances
          /\ fn_importances[c] = 5

ImportancesExtracted == pc \in {"config", "save_config", "smoke", "done"}

NativeAligned ==
    /\ ImportancesExtracted
    /\ model_data.model.has_importances
    /\ Len(model_data.model.feature_importances_) =
          Len(model_data.feature_columns)

PositiveIndices ==
    {i \in 1..Len(model_data.feature_columns) :
        model_data.model.feature_importances_[i] > 0}

\* C8 as stated: with a native importance vector aligned with
\* feature_columns the map holds feature_columns[i] with value importance[i]
\* exactly for the indices i of strictly positive importance, and no other key.
C8_NativeImportancesPerIndex ==
    NativeAligned =>
        /\ DOMAIN feature_importances =
              {model_data.feature_columns[i] : i \in PositiveIndices}
        /\ \A i \in PositiveIndices :
              feature_importances[model_data.feature_columns[i]] =
                 model_data.model.feature_importances_[i]

\* C8 amended: with a native importance vector aligned with feature_columns
\* the keys of the map are exactly the names feature_columns[i] of the indices
\* i of strictly positive importance, and the value of a name is the
\* importance at the last such index that carries the name (importance[i]
\* itself when the name occurs once); the heuristic values are not used.
C8_NativeImportancesLastIndexWins ==
    NativeAligned =>
        /\ DOMAIN feature_importances =
              {model_data.feature_columns[i] : i \in PositiveIndices}
        /\ \A c \in DOMAIN feature_importances :
              LET last == CHOOSE i \in PositiveIndices :
                             /\ model_data.feature_columns[i] = c
                             /\ \A j \in PositiveIndices :
                                   model_data.feature_columns[j] = c => j <= i
              IN  feature_importances[c] =
                     model_data.model.feature_importances_[last]

C8_Witness ==
    /\ NativeAligned
    /\ \E i, j \in PositiveIndices :
          /\ i < j
          /\ model_data.feature_columns[i] = model_data.feature_columns[j]
          /\ model_data.model.feature_importances_[i] #
                model_data.model.feature_importances_[j]

\* C9: the feature_columns of a written config equal the feature_columns of
\* the loaded artifact, element by element and in length.
C9_FeatureColumnsUnchanged ==
    config_file.status = "written" =>
        /\ Len(config_file.data.feature_columns) =
              Len(model_data.feature_columns)
        /\ \A i \in 1..Len(model_data.feature_columns) :
              config_file.data.feature_columns[i] =
                 model_data.feature_columns[i]

C9_Witness ==
    /\ config_file.status = "written"
    /\ Len(model_data.feature_columns) >= 2
    /\ model_data.feature_columns[1] = model_data.feature_columns[2]

\* C10: the config file is written only after the graph file, and no run
\* ends, normally or by an error, with the graph file written by the run and
\* the config file not written.
C10_OutputsNeverOutOfStep ==
    /\ config_file.status # "prior" => onnx_file.status = "written"
    /\ (pc \in {"done", "failed"} /\ onnx_file.status = "written") =>
          config_file.status = "written"

====
